---- MODULE Spec2Model ----
(***************************************************************************)
(* A model of nomad/blocked_evals.go: the BlockedEvals tracker, its        *)
(* unblock worker goroutine, and the callers of Block, Unblock,            *)
(* GetDuplicates, SetEnabled and Flush.                                    *)
(*                                                                         *)
(* Channels are recreated by Flush, so a channel is named by the number of *)
(* Flushes that preceded its creation (its generation).  A goroutine that  *)
(* read a channel field keeps that handle while it waits on it.            *)
(* Reads of fields made without the lock (Unblock, the worker's select,    *)
(* GetDuplicates' select) are separate steps that interleave freely with   *)
(* the locked sections of the other goroutines.                            *)
(***************************************************************************)
EXTENDS Integers, Sequences, FiniteSets, TLC

\* ------------------------------------------------------------- bounds ----
MaxEvals == 3          \* evaluations handed to Block in one behaviour
MaxGen == 2            \* Flush calls in one behaviour
MaxCalls == 4          \* calls of the exported methods in one behaviour
MaxUnblockBuffer == 1  \* modelled capacity of unblockCh (8096 in the source)

Jobs == {"j1", "j2"}
Classes == {"a", "b"}
Workers == {"w1", "w2"}     \* goroutine slots for `go b.unblock()`
DupCallers == {"d1", "d2"}  \* concurrent callers of GetDuplicates
Senders == {"u1"}           \* concurrent callers of Unblock
Gens == 0 .. MaxGen
NoWorker == "free"

\* ClassEligibility: a map from some computed classes to a verdict.  Class "b"
\* is one no evaluation has a verdict for.
EligClasses == {"a"}
EligMaps == UNION {[D -> BOOLEAN] : D \in SUBSET EligClasses}

VARIABLES
    enabled, running,      \* b.enabled, b.running
    lock,                  \* b.l: NoWorker when free, else the worker holding it
    captured, escaped,     \* sets of evaluation records (keyed by id)
    jobs,                  \* set of job ids
    duplicates,            \* sequence of evaluation records
    stats,                 \* [TotalEscaped, TotalBlocked]
    gen,                   \* generation of b.unblockCh, b.stopCh, b.duplicateCh
    unblockCh,             \* generation -> buffered messages
    stopClosed,            \* generation -> whether that stopCh was closed
    broker,                \* evalBroker: the batches passed to EnqueueAll
    wpc, wStop, wUnb, wMsg, wBatch,   \* worker goroutines
    upc, uMsg, uCh,                   \* Unblock callers
    dpc, dTimeout, dTimer, dStop, dDup,   \* GetDuplicates callers
    flushing,              \* SetEnabled(false) callers between Unlock and Flush
    nextId,                \* id of the next evaluation handed to Block
    calls,                 \* history: calls of exported methods so far
    lastCall,              \* history: the latest such call and its outcome
    dupIn,                 \* history: ids of the evaluations appended to duplicates
    dupOut,                \* history: the lists returned by GetDuplicates
    dupFlushed,            \* history: ids of duplicates cleared by Flush
    flushedJobs            \* history: jobs tracked at the last Flush, not blocked since

storeVars == <<captured, escaped, jobs, duplicates, stats>>
chanVars == <<gen, unblockCh, stopClosed>>
workerVars == <<wpc, wStop, wUnb, wMsg, wBatch>>
senderVars == <<upc, uMsg, uCh>>
dupVars == <<dpc, dTimeout, dTimer, dStop, dDup>>
histVars == <<nextId, dupIn, dupOut, dupFlushed, flushedJobs>>

vars == <<enabled, running, lock, storeVars, chanVars, broker, workerVars,
          senderVars, dupVars, flushing, histVars, calls, lastCall>>

\* --------------------------------------------------------- helpers -------
Ids(S) == {e.id : e \in S}
JobsOf(S) == {e.job : e \in S}
SeqIds(s) == [i \in 1 .. Len(s) |-> s[i].id]
Range(s) == {s[i] : i \in 1 .. Len(s)}

\* A message of unblockCh: the class, with two history tags: whether the
\* notification is still owed (see Disown), and the number n of the Unblock
\* call that sent it among the calls of the exported methods.
NoMsg == [class |-> "none", owed |-> FALSE, n |-> 0]

\* An evaluation as Block receives it.
Evaluation(id, job, esc, elig) ==
    [id |-> id, job |-> job, escaped |-> esc, elig |-> elig]

Init ==
    /\ enabled = FALSE
    /\ running = FALSE
    /\ lock = NoWorker
    /\ captured = {}
    /\ escaped = {}
    /\ jobs = {}
    /\ duplicates = <<>>
    /\ stats = [TotalEscaped |-> 0, TotalBlocked |-> 0]
    /\ gen = 0
    /\ unblockCh = [g \in Gens |-> <<>>]
    /\ stopClosed = [g \in Gens |-> FALSE]
    /\ broker = <<>>
    /\ wpc = [w \in Workers |-> "none"]
    /\ wStop = [w \in Workers |-> 0]
    /\ wUnb = [w \in Workers |-> 0]
    /\ wMsg = [w \in Workers |-> NoMsg]
    /\ wBatch = [w \in Workers |-> {}]
    /\ upc = [u \in Senders |-> "idle"]
    /\ uMsg = [u \in Senders |-> NoMsg]
    /\ uCh = [u \in Senders |-> 0]
    /\ dpc = [d \in DupCallers |-> "idle"]
    /\ dTimeout = [d \in DupCallers |-> FALSE]
    /\ dTimer = [d \in DupCallers |-> FALSE]
    /\ dStop = [d \in DupCallers |-> 0]
    /\ dDup = [d \in DupCallers |-> 0]
    /\ flushing = 0
    /\ nextId = 1
    /\ calls = 0
    /\ lastCall = "none"
    /\ dupIn = {}
    /\ dupOut = <<>>
    /\ dupFlushed = {}
    /\ flushedJobs = {}

\* ---------------------------------------------------------- history ----
\* A call of an exported method, within the bound on calls.
Call(outcome) ==
    /\ calls < MaxCalls
    /\ calls' = calls + 1
    /\ lastCall' = outcome

\* A step of a goroutine or of a call already counted.
Internal == UNCHANGED <<calls, lastCall>>


\* A message is owed while no Flush and no SetEnabled(false) has started since
\* the Unblock call that carries it read b.enabled as true.
Disown(m) == [m EXCEPT !.owed = FALSE]
DisownSeq(q) == [i \in 1 .. Len(q) |-> Disown(q[i])]
DisownAll ==
    /\ wMsg' = [w \in Workers |-> Disown(wMsg[w])]
    /\ uMsg' = [u \in Senders |-> Disown(uMsg[u])]

\* ---------------------------------------------------- old channels ------
\* A channel of an earlier generation that no goroutine holds any more is
\* unreachable: its contents are dropped, as the garbage collector drops it.
\* Both operators read the primed holders, so they come last in an action.
UnblockHeld(g) ==
    \/ g = gen'
    \/ \E w \in Workers : wpc'[w] = "select" /\ wUnb'[w] = g
    \/ \E u \in Senders : upc'[u] = "parked" /\ uCh'[u] = g

StopHeld(g) ==
    \/ g = gen'
    \/ \E w \in Workers : wpc'[w] = "select" /\ wStop'[w] = g
    \/ \E d \in DupCallers : dpc'[d] = "select" /\ dStop'[d] = g

SweepUnblock(ch) == [g \in Gens |-> IF UnblockHeld(g) THEN ch[g] ELSE <<>>]
SweepStop(st) == [g \in Gens |-> IF StopHeld(g) THEN st[g] ELSE FALSE]

\* ------------------------------------------------------------ Block ------
\* A variant of Existing that looks the job up among the escaped evaluations only.
ExistingAmongEscaped(e) == e.job \in JobsOf(escaped)

\* Line 116: the job already has a blocked evaluation.
Existing(e) == e.job \in jobs

\* Lines 120-123: the non-blocking send on b.duplicateCh succeeds only when a
\* GetDuplicates caller is parked in its select on that very channel.
DupWaiters == {d \in DupCallers : dpc[d] = "select" /\ dDup[d] = gen}

\* A variant of BlockDuplicate that keeps the evaluation only when its signal
\* is delivered.
BlockDuplicateIfSignalled(e) ==
    /\ dupIn' = dupIn \cup {e.id}
    /\ lastCall' = "Block:duplicate"
    /\ IF DupWaiters = {}
       THEN UNCHANGED <<duplicates, dpc, dStop, dDup>>
       ELSE /\ duplicates' = Append(duplicates, e)
            /\ \E d \in DupWaiters :
                /\ dpc' = [dpc EXCEPT ![d] = "scan"]
                /\ dStop' = [dStop EXCEPT ![d] = 0]
                /\ dDup' = [dDup EXCEPT ![d] = 0]
    /\ UNCHANGED <<captured, escaped, jobs, stats>>

\* A variant of BlockDuplicate that counts the duplicate in TotalBlocked.
BlockDuplicateCounted(e) ==
    /\ duplicates' = Append(duplicates, e)
    /\ dupIn' = dupIn \cup {e.id}
    /\ lastCall' = "Block:duplicate"
    /\ IF DupWaiters = {}
       THEN UNCHANGED <<dpc, dStop, dDup>>
       ELSE \E d \in DupWaiters :
                /\ dpc' = [dpc EXCEPT ![d] = "scan"]
                /\ dStop' = [dStop EXCEPT ![d] = 0]
                /\ dDup' = [dDup EXCEPT ![d] = 0]
    /\ stats' = [stats EXCEPT !.TotalBlocked = @ + 1]
    /\ UNCHANGED <<captured, escaped, jobs>>

\* Lines 117-125.
BlockDuplicate(e) ==
    /\ duplicates' = Append(duplicates, e)
    /\ dupIn' = dupIn \cup {e.id}
    /\ lastCall' = "Block:duplicate"
    /\ IF DupWaiters = {}
       THEN UNCHANGED <<dpc, dStop, dDup>>
       ELSE \E d \in DupWaiters :
                /\ dpc' = [dpc EXCEPT ![d] = "scan"]
                /\ dStop' = [dStop EXCEPT ![d] = 0]
                /\ dDup' = [dDup EXCEPT ![d] = 0]
    /\ UNCHANGED <<captured, escaped, jobs, stats>>

\* Lines 128-136.
BlockTrack(e) ==
    /\ jobs' = jobs \cup {e.job}
    /\ IF e.escaped
       THEN /\ escaped' = escaped \cup {e}
            /\ stats' = [TotalEscaped |-> stats.TotalEscaped + 1,
                         TotalBlocked |-> stats.TotalBlocked + 1]
            /\ UNCHANGED captured
       ELSE /\ captured' = captured \cup {e}
            /\ stats' = [stats EXCEPT !.TotalBlocked = @ + 1]
            /\ UNCHANGED escaped
    /\ lastCall' = IF e.job \in flushedJobs THEN "Block:again" ELSE "Block:new"
    /\ UNCHANGED <<duplicates, dpc, dStop, dDup, dupIn>>

\* A variant of BlockBody without the check of b.enabled.
BlockBodyAlways(e) ==
    /\ IF Existing(e) THEN BlockDuplicate(e) ELSE BlockTrack(e)
    /\ flushedJobs' = {}

\* Lines 110-136.
BlockBody(e) ==
    IF ~enabled
    THEN /\ lastCall' = "Block:off"
         /\ UNCHANGED <<storeVars, dpc, dStop, dDup, dupIn, flushedJobs>>
    ELSE /\ IF Existing(e) THEN BlockDuplicate(e) ELSE BlockTrack(e)
         /\ flushedJobs' = {}

Block(job, esc, elig) ==
    /\ calls < MaxCalls
    /\ calls' = calls + 1
    /\ lock = NoWorker
    /\ nextId <= MaxEvals
    /\ BlockBody(Evaluation(nextId, job, esc, elig))
    /\ nextId' = nextId + 1
    /\ UNCHANGED <<enabled, running, lock, gen, unblockCh, broker, workerVars,
                   senderVars, dTimeout, dTimer, flushing, dupOut, dupFlushed>>
    /\ stopClosed' = SweepStop(stopClosed)

\* ------------------------------------------------------------ Flush ------
\* A variant of FlushStop that closes b.stopCh whatever b.running is.
FlushStopAlways ==
    /\ stopClosed' = SweepStop([stopClosed EXCEPT ![gen] = TRUE])
    /\ running' = FALSE

\* Lines 259-263.
FlushStop ==
    IF running
    THEN /\ stopClosed' = SweepStop([stopClosed EXCEPT ![gen] = TRUE])
         /\ running' = FALSE
    ELSE /\ stopClosed' = SweepStop(stopClosed)
         /\ UNCHANGED running

\* A variant of FlushReset that keeps b.jobs.
FlushResetKeepsJobs ==
    /\ gen' = gen + 1
    /\ stats' = [TotalEscaped |-> 0, TotalBlocked |-> 0]
    /\ captured' = {}
    /\ escaped' = {}
    /\ jobs' = jobs
    /\ duplicates' = <<>>
    /\ unblockCh' = SweepUnblock([g \in Gens |-> DisownSeq(unblockCh[g])])

\* Lines 265-274.
FlushReset ==
    /\ gen' = gen + 1
    /\ stats' = [TotalEscaped |-> 0, TotalBlocked |-> 0]
    /\ captured' = {}
    /\ escaped' = {}
    /\ jobs' = {}
    /\ duplicates' = <<>>
    /\ unblockCh' = SweepUnblock([g \in Gens |-> DisownSeq(unblockCh[g])])

FlushBody ==
    /\ lock = NoWorker
    /\ UNCHANGED <<enabled, lock, broker, wpc, wStop, wUnb, wBatch, upc, uCh,
                   dupVars, nextId, dupIn, dupOut>>
    /\ FlushReset
    /\ FlushStop
    /\ DisownAll
    /\ dupFlushed' = dupFlushed \cup Ids(Range(duplicates))
    /\ flushedJobs' = jobs

\* Flush called directly.
Flush ==
    /\ Call(IF lastCall \in {"Flush", "Flush:again"} THEN "Flush:again" ELSE "Flush")
    /\ gen + flushing < MaxGen
    /\ FlushBody
    /\ UNCHANGED flushing

\* ------------------------------------------------------- SetEnabled ------
FreeWorkers == {w \in Workers : wpc[w] = "none"}

\* Lines 94-97.
StartWorker ==
    IF running
    THEN UNCHANGED <<running, wpc>>
    ELSE /\ running' = TRUE
         /\ \E w \in FreeWorkers : wpc' = [wpc EXCEPT ![w] = "loop"]

\* Lines 92-98 of SetEnabled(true).
SetEnabledTrue ==
    /\ Call("SetEnabled:true")
    /\ lock = NoWorker
    /\ enabled' = TRUE
    /\ StartWorker
    /\ UNCHANGED <<lock, storeVars, chanVars, broker, wStop, wUnb, wMsg, wBatch,
                   senderVars, dupVars, flushing, histVars>>

\* Lines 92-99 of SetEnabled(false): the Flush of line 100 is a later step.
SetEnabledFalse ==
    /\ Call("SetEnabled:false")
    /\ lock = NoWorker
    /\ gen + flushing < MaxGen
    /\ enabled' = FALSE
    /\ StartWorker
    /\ flushing' = flushing + 1
    /\ unblockCh' = [g \in Gens |-> DisownSeq(unblockCh[g])]
    /\ DisownAll
    /\ UNCHANGED <<lock, storeVars, gen, stopClosed, broker, wStop, wUnb, wBatch,
                   upc, uCh, dupVars, histVars>>

\* Line 100.
SetEnabledFlush ==
    /\ Internal
    /\ flushing > 0
    /\ FlushBody
    /\ flushing' = flushing - 1

\* ---------------------------------------------------------- Unblock ------
\* Lines 143-146: b.enabled is read without the lock.
UnblockCall(u, c) ==
    /\ Call(IF enabled THEN "Unblock:on" ELSE "Unblock:off")
    /\ upc[u] = "idle"
    /\ IF enabled
       THEN /\ upc' = [upc EXCEPT ![u] = "send"]
            /\ uMsg' = [uMsg EXCEPT ![u] = [class |-> c, owed |-> TRUE, n |-> calls + 1]]
       ELSE UNCHANGED <<upc, uMsg>>
    /\ UNCHANGED <<enabled, running, lock, storeVars, chanVars, broker,
                   workerVars, uCh, dupVars, flushing, histVars>>

\* Line 148: b.unblockCh is read without the lock; the send completes at once
\* when the buffer has room, and otherwise the caller parks on that channel.
UnblockSend(u) ==
    /\ Internal
    /\ upc[u] = "send"
    /\ IF Len(unblockCh[gen]) < MaxUnblockBuffer
       THEN /\ unblockCh' = [unblockCh EXCEPT ![gen] = Append(@, uMsg[u])]
            /\ upc' = [upc EXCEPT ![u] = "idle"]
            /\ uMsg' = [uMsg EXCEPT ![u] = NoMsg]
            /\ UNCHANGED uCh
       ELSE /\ upc' = [upc EXCEPT ![u] = "parked"]
            /\ uCh' = [uCh EXCEPT ![u] = gen]
            /\ UNCHANGED <<unblockCh, uMsg>>
    /\ UNCHANGED <<enabled, running, lock, storeVars, gen, stopClosed, broker,
                   workerVars, dupVars, flushing, histVars>>

\* Line 148, a parked sender: room appeared in the channel it parked on.
UnblockParkedSend(u) ==
    /\ Internal
    /\ upc[u] = "parked"
    /\ Len(unblockCh[uCh[u]]) < MaxUnblockBuffer
    /\ upc' = [upc EXCEPT ![u] = "idle"]
    /\ uMsg' = [uMsg EXCEPT ![u] = NoMsg]
    /\ uCh' = [uCh EXCEPT ![u] = 0]
    /\ UNCHANGED <<enabled, running, lock, storeVars, gen, stopClosed, broker,
                   workerVars, dupVars, flushing, histVars>>
    /\ unblockCh' = SweepUnblock([unblockCh EXCEPT ![uCh[u]] = Append(@, uMsg[u])])

\* ------------------------------------------------- the unblock worker ----
\* Lines 153-156: the select reads b.stopCh and b.unblockCh (without the lock)
\* and waits on the two channels it read.  The two reads are one step: a
\* Flush between them leaves a closed stopCh with the new unblockCh, and the
\* select then takes either the exit that both-old handles allow or the
\* receive that both-new handles allow.
WSelect(w) ==
    /\ Internal
    /\ wpc[w] = "loop"
    /\ wStop' = [wStop EXCEPT ![w] = gen]
    /\ wUnb' = [wUnb EXCEPT ![w] = gen]
    /\ wpc' = [wpc EXCEPT ![w] = "select"]
    /\ UNCHANGED <<enabled, running, lock, storeVars, chanVars, broker,
                   wMsg, wBatch, senderVars, dupVars, flushing, histVars>>

\* Lines 154-155: the stop channel it waits on is closed; the goroutine ends.
WStop(w) ==
    /\ Internal
    /\ wpc[w] = "select"
    /\ stopClosed[wStop[w]]
    /\ wpc' = [wpc EXCEPT ![w] = "none"]
    /\ wStop' = [wStop EXCEPT ![w] = 0]
    /\ wUnb' = [wUnb EXCEPT ![w] = 0]
    /\ UNCHANGED <<enabled, running, lock, storeVars, gen, broker,
                   wMsg, wBatch, senderVars, dupVars, flushing, histVars>>
    /\ unblockCh' = SweepUnblock(unblockCh)
    /\ stopClosed' = SweepStop(stopClosed)

\* Line 156: a class is received from the unblock channel it waits on.
WReceive(w) ==
    /\ Internal
    /\ wpc[w] = "select"
    /\ unblockCh[wUnb[w]] # <<>>
    /\ wMsg' = [wMsg EXCEPT ![w] = Head(unblockCh[wUnb[w]])]
    /\ wpc' = [wpc EXCEPT ![w] = "lock"]
    /\ wStop' = [wStop EXCEPT ![w] = 0]
    /\ wUnb' = [wUnb EXCEPT ![w] = 0]
    /\ UNCHANGED <<enabled, running, lock, storeVars, gen, broker,
                   wBatch, senderVars, dupVars, flushing, histVars>>
    /\ unblockCh' = SweepUnblock([unblockCh EXCEPT ![wUnb[w]] = Tail(@)])
    /\ stopClosed' = SweepStop(stopClosed)

\* Lines 157-162: the lock is taken; when b.running is false the goroutine
\* returns, and nothing ever unlocks.
WLock(w) ==
    /\ Internal
    /\ wpc[w] = "lock"
    /\ lock = NoWorker
    /\ lock' = w
    /\ wpc' = [wpc EXCEPT ![w] = IF running THEN "release" ELSE "returned"]
    /\ UNCHANGED <<enabled, running, storeVars, chanVars, broker,
                   wStop, wUnb, wMsg, wBatch, senderVars, dupVars, flushing,
                   histVars>>

\* A variant of Eligible that wants the class marked eligible.
EligibleWhenMarked(e, c) == c \in DOMAIN e.elig /\ e.elig[c]

\* Lines 185-191: skipped only when the class is marked ineligible.
Eligible(e, c) == ~(c \in DOMAIN e.elig /\ ~e.elig[c])

\* A variant of Escapees that filters the escaped evaluations by class.
EscapeesByClass(c) == {e \in escaped : Eligible(e, c)}

\* Lines 166-176: every escaped evaluation is unblocked, whatever the class.
Escapees(c) == escaped

\* Lines 184-198: the captured evaluations to unblock for class c.
Untrack(c) == {e \in captured : Eligible(e, c)}

\* A variant of WRelease that untracks the eligible captured evaluations
\* without appending them to `unblocked`.
WReleaseDropsCaptured(w) ==
    /\ Internal
    /\ wpc[w] = "release"
    /\ lock = w
    /\ wBatch' = [wBatch EXCEPT ![w] = Escapees(wMsg[w].class)]
    /\ escaped' = escaped \ Escapees(wMsg[w].class)
    /\ captured' = captured \ Untrack(wMsg[w].class)
    /\ jobs' = (jobs \ JobsOf(Escapees(wMsg[w].class)))
                    \ JobsOf(Untrack(wMsg[w].class))
    /\ wMsg' = [wMsg EXCEPT ![w] = Disown(@)]
    /\ wpc' = [wpc EXCEPT ![w] = "finish"]
    /\ UNCHANGED <<enabled, running, lock, duplicates, stats, chanVars, broker,
                   wStop, wUnb, senderVars, dupVars, flushing, histVars>>

\* Lines 166-205: with the lock held, every escaped evaluation and every
\* eligible captured one moves to the local slice `unblocked`.
WRelease(w) ==
    /\ Internal
    /\ wpc[w] = "release"
    /\ lock = w
    /\ wBatch' = [wBatch EXCEPT ![w] =
                      Escapees(wMsg[w].class) \cup Untrack(wMsg[w].class)]
    /\ escaped' = escaped \ Escapees(wMsg[w].class)
    /\ captured' = captured \ Untrack(wMsg[w].class)
    /\ jobs' = (jobs \ JobsOf(Escapees(wMsg[w].class)))
                    \ JobsOf(Untrack(wMsg[w].class))
    /\ wMsg' = [wMsg EXCEPT ![w] = Disown(@)]
    /\ wpc' = [wpc EXCEPT ![w] = "finish"]
    /\ UNCHANGED <<enabled, running, lock, duplicates, stats, chanVars, broker,
                   wStop, wUnb, senderVars, dupVars, flushing, histVars>>

\* A variant of UpdateCounters that leaves TotalEscaped alone.
UpdateCountersBlockedOnly(st, l) == [st EXCEPT !.TotalBlocked = @ - l]

\* Lines 207-211.
UpdateCounters(st, l) ==
    IF l # 0
    THEN [TotalEscaped |-> 0, TotalBlocked |-> st.TotalBlocked - l]
    ELSE st

\* A variant of WFinish that calls EnqueueAll with an empty slice as well.
WFinishAlwaysEnqueues(w) ==
    /\ Internal
    /\ wpc[w] = "finish"
    /\ lock = w
    /\ stats' = UpdateCounters(stats, Cardinality(wBatch[w]))
    /\ broker' = Append(broker, Ids(wBatch[w]))
    /\ lock' = NoWorker
    /\ wBatch' = [wBatch EXCEPT ![w] = {}]
    /\ wMsg' = [wMsg EXCEPT ![w] = NoMsg]
    /\ wpc' = [wpc EXCEPT ![w] = "loop"]
    /\ UNCHANGED <<enabled, running, captured, escaped, jobs, duplicates,
                   chanVars, wStop, wUnb, senderVars, dupVars, flushing, histVars>>

\* Lines 207-215: counters, EnqueueAll, Unlock; back to the top of the loop.
WFinish(w) ==
    /\ Internal
    /\ wpc[w] = "finish"
    /\ lock = w
    /\ stats' = UpdateCounters(stats, Cardinality(wBatch[w]))
    /\ broker' = IF wBatch[w] # {} THEN Append(broker, Ids(wBatch[w])) ELSE broker
    /\ lock' = NoWorker
    /\ wBatch' = [wBatch EXCEPT ![w] = {}]
    /\ wMsg' = [wMsg EXCEPT ![w] = NoMsg]
    /\ wpc' = [wpc EXCEPT ![w] = "loop"]
    /\ UNCHANGED <<enabled, running, captured, escaped, jobs, duplicates,
                   chanVars, wStop, wUnb, senderVars, dupVars, flushing, histVars>>

\* ---------------------------------------------------- GetDuplicates ------
\* Line 222: a call; timeout is whether the timeout argument is non-zero.
GetDuplicatesCall(d, timeout) ==
    /\ Call("GetDuplicates")
    /\ dpc[d] = "idle"
    /\ dpc' = [dpc EXCEPT ![d] = "scan"]
    /\ dTimeout' = [dTimeout EXCEPT ![d] = timeout]
    /\ UNCHANGED <<enabled, running, lock, storeVars, chanVars, broker,
                   workerVars, senderVars, dTimer, dStop, dDup, flushing, histVars>>

\* The call returns: its locals are gone.
GDReturn(d) ==
    /\ dpc' = [dpc EXCEPT ![d] = "idle"]
    /\ dTimeout' = [dTimeout EXCEPT ![d] = FALSE]
    /\ dTimer' = [dTimer EXCEPT ![d] = FALSE]
    /\ dStop' = [dStop EXCEPT ![d] = 0]
    /\ dDup' = [dDup EXCEPT ![d] = 0]

\* Lines 226-240: the poll under the lock; a non-empty list is taken whole and
\* returned, an empty one leads to the select, with the timer created on the
\* first pass when timeout # 0.
GDScan(d) ==
    /\ Internal
    /\ dpc[d] = "scan"
    /\ lock = NoWorker
    /\ IF duplicates # <<>>
       THEN /\ dupOut' = Append(dupOut, SeqIds(duplicates))
            /\ duplicates' = <<>>
            /\ GDReturn(d)
       ELSE /\ dpc' = [dpc EXCEPT ![d] = "park"]
            /\ dTimer' = [dTimer EXCEPT ![d] = @ \/ dTimeout[d]]
            /\ UNCHANGED <<duplicates, dupOut, dTimeout, dStop, dDup>>
    /\ UNCHANGED <<enabled, running, lock, captured, escaped, jobs, stats,
                   chanVars, broker, workerVars, senderVars,
                   flushing, nextId, dupIn, dupFlushed, flushedJobs>>

\* Lines 242-247: the select reads b.stopCh and b.duplicateCh (without the
\* lock) and parks on the channels it read.
GDSelect(d) ==
    /\ Internal
    /\ dpc[d] = "park"
    /\ dStop' = [dStop EXCEPT ![d] = gen]
    /\ dDup' = [dDup EXCEPT ![d] = gen]
    /\ dpc' = [dpc EXCEPT ![d] = "select"]
    /\ UNCHANGED <<enabled, running, lock, storeVars, chanVars, broker,
                   workerVars, senderVars, dTimeout, dTimer, flushing, histVars>>

\* Lines 243-244: the stop channel it waits on is closed.
GDStopped(d) ==
    /\ Internal
    /\ dpc[d] = "select"
    /\ stopClosed[dStop[d]]
    /\ GDReturn(d)
    /\ UNCHANGED <<enabled, running, lock, storeVars, gen, unblockCh, broker,
                   workerVars, senderVars, flushing, histVars>>
    /\ stopClosed' = SweepStop(stopClosed)

\* Lines 245-246: the timer fires.
GDTimeout(d) ==
    /\ Internal
    /\ dpc[d] = "select"
    /\ dTimer[d]
    /\ GDReturn(d)
    /\ UNCHANGED <<enabled, running, lock, storeVars, gen, unblockCh, broker,
                   workerVars, senderVars, flushing, histVars>>
    /\ stopClosed' = SweepStop(stopClosed)

\* Lines 247-248 (the receive on b.duplicateCh) happen in BlockDuplicate, the
\* only sender: the woken caller goes back to SCAN.

\* ------------------------------------------------------------- Next ------
WorkerStep(w) ==
    \/ WSelect(w)
    \/ WStop(w)
    \/ WReceive(w)
    \/ WLock(w)
    \/ WRelease(w)
    \/ WFinish(w)

DupCallerStep(d) ==
    \/ GDScan(d)
    \/ GDSelect(d)
    \/ GDStopped(d)
    \/ GDTimeout(d)

SenderStep(u) ==
    \/ UnblockSend(u)
    \/ UnblockParkedSend(u)

Next ==
    \/ \E job \in Jobs, esc \in BOOLEAN, elig \in EligMaps : Block(job, esc, elig)
    \/ Flush
    \/ SetEnabledTrue
    \/ SetEnabledFalse
    \/ SetEnabledFlush
    \/ \E u \in Senders, c \in Classes : UnblockCall(u, c)
    \/ \E u \in Senders : SenderStep(u)
    \/ \E w \in Workers : WorkerStep(w)
    \/ \E d \in DupCallers, timeout \in BOOLEAN : GetDuplicatesCall(d, timeout)
    \/ \E d \in DupCallers : DupCallerStep(d)

Spec == Init /\ [][Next]_vars

\* What the scheduler and the lock guarantee: a goroutine that can take a step
\* eventually takes one.  Calls of the exported methods are never forced.
Fairness ==
    /\ \A w \in Workers : WF_vars(WorkerStep(w))
    /\ \A u \in Senders : WF_vars(SenderStep(u))
    /\ \A d \in DupCallers : WF_vars(DupCallerStep(d))
    /\ WF_vars(SetEnabledFlush)

FairSpec == Spec /\ Fairness

\* ========================================================= properties ====
Blocked == captured \cup escaped
BlockedFor(j) == {e \in Blocked : e.job = j}
Alive == {w \in Workers : wpc[w] \notin {"none", "returned"}}
Releasing(w) == wpc[w] = "release" /\ wpc'[w] = "finish"
Finishing(w) == wpc[w] = "finish" /\ wpc'[w] = "loop"
Marked(e, c) == c \in DOMAIN e.elig
Zero == [TotalEscaped |-> 0, TotalBlocked |-> 0]

RECURSIVE Concat(_)
Concat(ss) == IF ss = <<>> THEN <<>> ELSE Head(ss) \o Concat(Tail(ss))
Ascending(s) == \A i, k \in 1 .. Len(s) : i < k => s[i] < s[k]

\* C1: in every reachable state each job has at most one evaluation in
\* captured \cup escaped, and a job id is in jobs iff exactly one of its
\* evaluations is there.
OneBlockedEvalPerJob ==
    \A j \in Jobs :
        /\ Cardinality(BlockedFor(j)) <= 1
        /\ j \in jobs <=> Cardinality(BlockedFor(j)) = 1

\* C1 witness: a job is tracked and a later evaluation of it sits in duplicates.
TrackedJobWithDuplicate ==
    \E e \in Blocked : \E i \in 1 .. Len(duplicates) : duplicates[i].job = e.job

\* C2: whenever the lock is free, TotalBlocked = |captured| + |escaped| and
\* TotalEscaped = |escaped|.
CountersMatchStore ==
    lock = NoWorker =>
        /\ stats.TotalBlocked = Cardinality(captured) + Cardinality(escaped)
        /\ stats.TotalEscaped = Cardinality(escaped)

\* C2 witness: a notification released something, the lock is free again and a
\* captured evaluation is still blocked.
ReleasedSomeKeptSome ==
    /\ lock = NoWorker
    /\ broker # <<>>
    /\ captured # {}
    /\ stats.TotalBlocked = 1

\* C3: when the worker processes a notification for class c, a captured
\* evaluation that maps c to false stays captured with its job tracked, and
\* every other captured evaluation leaves captured and is in the batch handed
\* to EnqueueAll.
ConservativeRelease ==
    [][\A w \in Workers :
        /\ Releasing(w) =>
            \A e \in captured :
                IF Marked(e, wMsg[w].class) /\ ~e.elig[wMsg[w].class]
                THEN e \in captured' /\ e.job \in jobs' /\ e \notin wBatch'[w]
                ELSE e \notin captured' /\ e \in wBatch'[w]
        /\ Finishing(w) /\ wBatch[w] # {} =>
            broker' = Append(broker, Ids(wBatch[w]))]_vars

\* C3 witness: a pass kept one captured evaluation (class marked false) and
\* took another captured one into its batch.
KeptAndReleasedCaptured ==
    \E w \in Workers :
        /\ wpc[w] = "finish"
        /\ \E e \in captured : Marked(e, wMsg[w].class) /\ ~e.elig[wMsg[w].class]
        /\ \E e \in wBatch[w] : ~e.escaped

\* C4: when the worker processes a notification, whatever its class, every
\* escaped evaluation leaves escaped, its job leaves jobs, it is in the batch
\* handed to EnqueueAll, and TotalEscaped is 0 afterwards.
EscapedAlwaysReleased ==
    [][\A w \in Workers :
        /\ Releasing(w) =>
            /\ escaped' = {}
            /\ escaped \subseteq wBatch'[w]
            /\ JobsOf(escaped) \cap jobs' = {}
        /\ Finishing(w) =>
            /\ escaped' = {}
            /\ stats'.TotalEscaped = 0
            /\ wBatch[w] # {} => broker' = Append(broker, Ids(wBatch[w]))]_vars

\* C4 witness: the batch holds an escaped evaluation that marks the notified
\* class ineligible.
EscapedReleasedDespiteVerdict ==
    \E w \in Workers :
        /\ wpc[w] = "finish"
        /\ \E e \in wBatch[w] :
            e.escaped /\ Marked(e, wMsg[w].class) /\ ~e.elig[wMsg[w].class]

NoLostWakeup ==
    \A d \in DupCallers :
        dpc[d] = "select" /\ ~dTimeout[d] /\ duplicates # <<>> =>
            \E o \in DupCallers \ {d} : dpc[o] = "scan"

\* C7: at most one unblock worker is alive at any time.
AtMostOneWorker == Cardinality(Alive) <= 1

\* C8: a notification accepted while enabled, with no Flush and no
\* SetEnabled(false) started since, is eventually processed by the worker.
Owed ==
    \/ \E g \in Gens : \E i \in 1 .. Len(unblockCh[g]) : unblockCh[g][i].owed
    \/ \E w \in Workers : wMsg[w].owed
    \/ \E u \in Senders : uMsg[u].owed

NotificationNeverLost == Owed ~> ~Owed

\* C9: a Flush leaves captured, escaped, jobs and duplicates empty and both
\* counters zero; and, while enabled, the next Block for a job that was
\* tracked at that Flush is inserted as new, with TotalBlocked = 1, and is not
\* appended to duplicates.
FlushResetsFully ==
    [][/\ gen' # gen =>
            /\ captured' = {} /\ escaped' = {} /\ jobs' = {}
            /\ duplicates' = <<>>
            /\ stats' = Zero
       /\ nextId' # nextId /\ enabled /\ flushedJobs # {} =>
            LET new == Blocked' \ Blocked
                now == IF duplicates' # duplicates
                       THEN {duplicates'[Len(duplicates')]}
                       ELSE new
            IN /\ now # {}
               /\ \A e \in now :
                    e.job \in flushedJobs =>
                        /\ e \in new
                        /\ e.id = nextId
                        /\ duplicates' = duplicates
                        /\ stats'.TotalBlocked = 1]_vars

\* C9 witness: after a Flush, a job tracked at that Flush was blocked again
\* and is tracked as new.
BlockedAgainAfterFlush ==
    /\ lastCall = "Block:again"
    /\ gen >= 1
    /\ stats.TotalBlocked = 1
    /\ duplicates = <<>>

ParkedAcrossFlush(d) == dpc[d] = "select" /\ dStop[d] # gen

FlushReleasesWaiters ==
    \A d \in DupCallers : ParkedAcrossFlush(d) ~> (dpc[d] = "idle")

\* C12: a worker that is alive once a Flush has set running to false
\* eventually exits.
OutlivesFlush(w) == ~running /\ w \in Alive

FlushStopsWorker ==
    \A w \in Workers : OutlivesFlush(w) ~> (w \notin Alive)

\* C13: an evaluation in captured or escaped leaves the store only in a Flush
\* or in a worker's pass that puts it in the batch; every non-empty batch is
\* handed to EnqueueAll once; and no evaluation is in two batches, or in a
\* batch and still in the store.
Enqueued == UNION Range(broker)

InOneBatchOnly ==
    /\ \A i, k \in 1 .. Len(broker) : i # k => broker[i] \cap broker[k] = {}
    /\ \A w, v \in Workers : w # v => wBatch[w] \cap wBatch[v] = {}
    /\ \A w \in Workers : Ids(wBatch[w]) \cap Enqueued = {}
    /\ \A w \in Workers : wBatch[w] \cap Blocked = {}
    /\ Ids(Blocked) \cap Enqueued = {}

LeavesByEnqueueOrFlush ==
    /\ \A e \in Blocked \ Blocked' :
        \/ gen' # gen
        \/ \E w \in Workers : Releasing(w) /\ e \in wBatch'[w]
    /\ \A w \in Workers :
        wBatch'[w] # wBatch[w] =>
            \/ Releasing(w) /\ wBatch[w] = {}
            \/ /\ Finishing(w)
               /\ wBatch'[w] = {}
               /\ broker' = Append(broker, Ids(wBatch[w]))
    /\ broker' # broker => \E w \in Workers : Finishing(w) /\ wBatch[w] # {}

RemovedExactlyOnce == []InOneBatchOnly /\ [][LeavesByEnqueueOrFlush]_vars

\* C13 witness: one evaluation was enqueued and a later one is in the store.
EnqueuedOneBlockedAnother ==
    /\ Len(broker) = 1
    /\ \E e \in Blocked : \A i \in Enqueued : i < e.id

\* C14: a Flush that directly follows a Flush finds running false, closes no
\* stop channel, leaves enabled as it was and leaves captured, escaped, jobs
\* and duplicates empty and both counters zero; and the stop channel in use
\* is never one that was closed.
Flushed ==
    /\ ~running
    /\ Blocked = {} /\ jobs = {} /\ duplicates = <<>>
    /\ stats = Zero

SecondFlush == calls' # calls /\ lastCall' = "Flush:again"

FlushIdempotent ==
    /\ [](~stopClosed[gen])
    /\ [][SecondFlush =>
            /\ Flushed /\ Flushed'
            /\ enabled' = enabled
            /\ \A g \in Gens : stopClosed'[g] => stopClosed[g]]_vars

\* C14 witness: two Flushes in a row on an enabled tracker whose worker still
\* waits on the channels of the first.
FlushedTwiceInARow ==
    /\ lastCall = "Flush:again"
    /\ enabled
    /\ Flushed
    /\ \E w \in Workers : wpc[w] = "select" /\ wStop[w] = gen - 1

\* C15: a GetDuplicates call with a non-zero timeout eventually returns.
InTimedCall(d) == dpc[d] # "idle" /\ dTimeout[d]

TimedGetDuplicatesReturns ==
    \A d \in DupCallers : InTimedCall(d) ~> (dpc[d] = "idle")

\* C16: at most one worker is processing a notification at any time, and a
\* worker never starts to process a notification while one that an earlier
\* Unblock call of the same enable cycle sent is still waiting, in a channel
\* or in the hands of another worker.
Processing == {w \in Workers : wpc[w] \in {"release", "finish"}}

Waiting ==
    {wMsg[w] : w \in {v \in Workers : wpc[v] = "lock"}}
        \cup UNION {Range(unblockCh[g]) : g \in Gens}

OneAtATime == Cardinality(Processing) <= 1

InArrivalOrder ==
    \A w \in Workers :
        wpc[w] = "release" /\ wMsg[w].owed =>
            \A m \in Waiting : m.owed => wMsg[w].n < m.n

ProcessedOneByOneInOrder == OneAtATime /\ InArrivalOrder

\* C17: a worker or a GetDuplicates caller that waits on a stop channel an
\* earlier Flush replaced waits on one that was closed, and so is about to
\* leave; and no Unblock caller is parked on a replaced unblock channel.
NoStaleHandles ==
    /\ \A w \in Workers :
        wpc[w] = "select" /\ wStop[w] # gen => stopClosed[wStop[w]]
    /\ \A d \in DupCallers :
        dpc[d] = "select" /\ dStop[d] # gen => stopClosed[dStop[d]]
    /\ \A u \in Senders : upc[u] = "parked" => uCh[u] = gen

\* C18: a worker's pass runs under the lock; the evaluations it removes from
\* the store are exactly its batch; the batch goes to EnqueueAll in one call
\* made before the lock is released, and no call is made for an empty batch;
\* and no Block takes effect between the removal and that call.
PassUnderLock == \A w \in Processing : lock = w

OneEnqueueAll ==
    /\ \A w \in Workers :
        /\ Releasing(w) => lock = w /\ wBatch'[w] = Blocked \ Blocked'
        /\ Finishing(w) =>
            /\ lock = w
            /\ broker' = IF wBatch[w] = {}
                         THEN broker
                         ELSE Append(broker, Ids(wBatch[w]))
    /\ broker' # broker => \E w \in Workers : Finishing(w)
    /\ nextId' # nextId => Processing = {}

SingleEnqueueUnderLock == []PassUnderLock /\ [][OneEnqueueAll]_vars

\* C18 witness: a worker holds the lock with a batch of an escaped and a
\* captured evaluation that it has removed and not yet enqueued.
MixedBatchHeldUnderLock ==
    \E w \in Workers :
        /\ wpc[w] = "finish"
        /\ lock = w
        /\ \E e \in wBatch[w] : e.escaped
        /\ \E e \in wBatch[w] : ~e.escaped
        /\ Ids(wBatch[w]) \cap Enqueued = {}

\* C19: a worker that has exited does not hold the lock.
LockReleasedOnExit == \A w \in Workers : w \notin Alive => lock # w

\* C20: a Block while enabled either tracks an evaluation of a job that was
\* not in jobs, or, the job being in jobs, appends the evaluation to the end
\* of duplicates and leaves captured, escaped, jobs and both counters as they
\* were; and after SetEnabled(true), Block(e1), Block(e2) for one job
\* TotalBlocked is 1 and duplicates is [e2].
BlockOfTrackedJob ==
    nextId' # nextId /\ enabled =>
        IF Blocked' # Blocked
        THEN \A e \in Blocked' \ Blocked : e.id = nextId /\ e.job \notin jobs
        ELSE /\ duplicates' # duplicates
             /\ SubSeq(duplicates', 1, Len(duplicates)) = duplicates
             /\ Len(duplicates') = Len(duplicates) + 1
             /\ duplicates'[Len(duplicates')].id = nextId
             /\ duplicates'[Len(duplicates')].job \in jobs
             /\ UNCHANGED <<captured, escaped, jobs, stats>>

TwoBlocksOfOneJob == calls = 3 /\ nextId = 3 /\ lastCall = "Block:duplicate"

DuplicateBlockOnlyAppends ==
    /\ [][BlockOfTrackedJob]_vars
    /\ [](TwoBlocksOfOneJob =>
            /\ stats.TotalBlocked = 1
            /\ SeqIds(duplicates) = <<2>>)

\* C20 witness: the state after SetEnabled(true), Block(e1), Block(e2) for one
\* job.
SecondBlockIsDuplicate ==
    /\ TwoBlocksOfOneJob
    /\ Cardinality(Blocked) = 1
    /\ Len(duplicates) = 1
    /\ duplicates[1].job \in JobsOf(Blocked)

====
